---- MODULE Spec2Model ----
(***************************************************************************)
(* The in-process event bus of the GraphQL subscription layer              *)
(* (server/graphql/subscriptions/event_bus.py): the subscription registry, *)
(* publish-time fan-out, the per-subscription event generator, the reaper  *)
(* task and the start/stop lifecycle, as an asyncio program: every         *)
(* coroutine runs atomically between two real suspension points.           *)
(***************************************************************************)
EXTENDS Integers, Sequences, FiniteSets, TLC

(***************************************************************************)
(* Bounds of the model.                                                    *)
(***************************************************************************)
MaxSubs == 2          \* subscribe() calls in one behaviour
MaxEvents == 2        \* events constructed and handed to publish()
MaxTasks == 1         \* reaper tasks created by start()
MaxStops == 1         \* stop() calls suspended on the reaper task at once
MaxQueueSize == 2     \* largest max_queue_size the bus is constructed with
cleanup_interval == 1 \* the cleanup_interval the bus is constructed with
MaxStarts == 2        \* reaper tasks created where start() meets a suspended stop()
MaxBatch == 2         \* largest number of entities created in one batch

(***************************************************************************)
(* Values.                                                                 *)
(***************************************************************************)
None == "None"

\* class EventType, in declaration order (the order of dict iteration over
\* self._subscriptions)
EventType == <<"CREATED", "UPDATED", "DELETED", "STATUS_CHANGED", "BATCH_OPERATION">>

EventTypes == {EventType[i] : i \in DOMAIN EventType}

Elems(list) == {list[i] : i \in DOMAIN list}

\* an empty dict ({}): a function with an empty domain
EmptyDict == [k \in {} |-> None]

\* Optional[List[EventType]]: None, or a list
NoneList == [is_none |-> TRUE, items |-> <<>>]

SomeList(l) == [is_none |-> FALSE, items |-> l]

\* dict.get(key) with the default None
DictGetOrNone(d, k) == IF k \in DOMAIN d THEN d[k] ELSE None

(***************************************************************************)
(* A Python dict keeps insertion order: a sequence of key/value pairs with *)
(* unique keys.                                                            *)
(***************************************************************************)
Keys(d) == {d[i].key : i \in DOMAIN d}

Values(d) == [i \in DOMAIN d |-> d[i].value]

\* d[k] = v: an existing key keeps its position, a new key goes last
DictSet(d, k, v) ==
    IF k \in Keys(d)
    THEN [i \in DOMAIN d |-> IF d[i].key = k THEN [key |-> k, value |-> v] ELSE d[i]]
    ELSE Append(d, [key |-> k, value |-> v])

\* del d[k]
DictDel(d, k) == SelectSeq(d, LAMBDA kv : kv.key # k)

\* list(d.keys())
KeyList(d) == [i \in DOMAIN d |-> d[i].key]

RECURSIVE Concat(_)
\* the concatenation of a list of lists: what a loop that extends one list
\* with the entries of each dict of self._subscriptions.values() collects
Concat(lists) ==
    IF lists = <<>> THEN <<>>
    ELSE Head(lists) \o Concat(Tail(lists))

(***************************************************************************)
(* Event.matches_filter                                                    *)
(***************************************************************************)
\* faulty variant: the metadata sub-filter is not looked at
matches_filter_skips_metadata(event, filter_criteria) ==
    /\ ("event_types" \in DOMAIN filter_criteria
            => event.event_type \in Elems(filter_criteria["event_types"]))
    /\ ("entity_ids" \in DOMAIN filter_criteria
            => event.entity_id \in Elems(filter_criteria["entity_ids"]))
    /\ ("user_id" \in DOMAIN filter_criteria
            => event.user_id = filter_criteria["user_id"])

matches_filter(event, filter_criteria) ==
    /\ ("event_types" \in DOMAIN filter_criteria
            => event.event_type \in Elems(filter_criteria["event_types"]))
    /\ ("entity_ids" \in DOMAIN filter_criteria
            => event.entity_id \in Elems(filter_criteria["entity_ids"]))
    /\ ("user_id" \in DOMAIN filter_criteria
            => event.user_id = filter_criteria["user_id"])
    /\ ("metadata" \in DOMAIN filter_criteria
            => \A key \in DOMAIN filter_criteria["metadata"] :
                  DictGetOrNone(event.metadata, key) = filter_criteria["metadata"][key])

(***************************************************************************)
(* State.                                                                  *)
(***************************************************************************)
VARIABLES
    max_queue_size,         \* self.max_queue_size
    running,                \* self._running
    global_subscriptions,   \* self._global_subscriptions: dict id -> Subscription
    subscriptions,          \* self._subscriptions: EventType -> dict id -> Subscription
    stats,                  \* self.stats
    cleanup_task,           \* self._cleanup_task: 0 (None) or a task of tasks
    tasks,                  \* the reaper tasks created so far
    stop_waiting,           \* per task, the stop() calls suspended in "await self._cleanup_task"
    subs,                   \* the Subscription objects created so far
    interest,               \* per Subscription object, the event_types it was subscribed with
    gen,                    \* per Subscription object, where its _event_generator stands
    yielded,                \* per Subscription object, the event its generator is suspended on at yield
    next_uuid,              \* source of uuid4() subscription ids
    next_event,             \* source of event ids
    last                    \* the last call made and what it returned

vars == <<max_queue_size, running, global_subscriptions, subscriptions, stats,
          cleanup_task, tasks, stop_waiting, subs, interest, gen, yielded,
          next_uuid, next_event, last>>

\* the clock is read relative to the present: datetime.utcnow()
utcnow == 0

\* the oldest timestamp told apart: everything older is stale alike
Oldest == 0 - (2 * cleanup_interval + 1)

Objs == DOMAIN subs

Tasks == DOMAIN tasks

\* the bus's registry and counters, as the helpers below take and return them
Bus == [g |-> global_subscriptions, s |-> subscriptions, stats |-> stats]

\* the Subscription objects a registry holds
Registered(bus) ==
    Elems(Values(bus.g)) \cup UNION {Elems(Values(bus.s[t])) : t \in EventTypes}

\* the subscription ids a registry holds
RegisteredIds(bus) == Keys(bus.g) \cup UNION {Keys(bus.s[t]) : t \in EventTypes}

\* last, after a call whose result no property reads
NoCall == [op |-> "none", arg |-> 0, ret |-> 0]

(***************************************************************************)
(* __init__                                                                *)
(***************************************************************************)
\* {{ PrefixName }}EventBus(max_queue_size=n, ...) for an n of sizes
InitSized(sizes) ==
    /\ max_queue_size \in sizes
    /\ running = FALSE
    /\ global_subscriptions = <<>>
    /\ subscriptions = [t \in EventTypes |-> <<>>]
    /\ stats = [events_published |-> 0, subscriptions_created |-> 0,
                subscriptions_cleaned |-> 0, total_deliveries |-> 0]
    /\ cleanup_task = 0
    /\ tasks = <<>>
    /\ stop_waiting = <<>>
    /\ subs = <<>>
    /\ interest = <<>>
    /\ gen = <<>>
    /\ yielded = <<>>
    /\ next_uuid = 1
    /\ next_event = 1
    /\ last = NoCall

\* the sizes the service and its scripts construct the bus with are positive
Init == InitSized(1..MaxQueueSize)

(***************************************************************************)
(* asyncio.Queue(maxsize): full() is never true for maxsize <= 0.          *)
(***************************************************************************)
\* faulty variant: full only once one event too many is queued
QueueFull_off_by_one(queue, maxsize) == maxsize > 0 /\ Len(queue) > maxsize

QueueFull(queue, maxsize) == maxsize > 0 /\ Len(queue) >= maxsize

(***************************************************************************)
(* subscribe: registration of a new Subscription object obj under id.      *)
(***************************************************************************)
RECURSIVE RegisterTypes(_, _, _, _)
\* for event_type in event_types: self._subscriptions[event_type][id] = subscription
RegisterTypes(s, items, id, obj) ==
    IF items = <<>> THEN s
    ELSE RegisterTypes([s EXCEPT ![Head(items)] = DictSet(@, id, obj)],
                       Tail(items), id, obj)

\* faulty variant: an interest list registers under every event type
Register_everywhere(bus, event_types, id, obj) ==
    IF event_types.is_none
    THEN [bus EXCEPT !.g = DictSet(@, id, obj)]
    ELSE [bus EXCEPT !.s = RegisterTypes(@, EventType, id, obj)]

\* faulty variant: a bus that is not running registers nothing
Register_only_running(bus, event_types, id, obj) ==
    IF ~running THEN bus
    ELSE IF event_types.is_none
    THEN [bus EXCEPT !.g = DictSet(@, id, obj)]
    ELSE [bus EXCEPT !.s = RegisterTypes(@, event_types.items, id, obj)]

Register(bus, event_types, id, obj) ==
    IF event_types.is_none
    THEN [bus EXCEPT !.g = DictSet(@, id, obj)]
    ELSE [bus EXCEPT !.s = RegisterTypes(@, event_types.items, id, obj)]

\* the subscription ids a caller may pass: 0 stands for None (generate one)
NoId == 0

Subscribe(event_types, filter_criteria, subscription_id) ==
    /\ Len(subs) < MaxSubs
    /\ LET id  == IF subscription_id = NoId THEN next_uuid ELSE subscription_id
           obj == Len(subs) + 1
           bus == Register(Bus, event_types, id, obj)
       IN /\ subs' = Append(subs, [subscription_id |-> id,
                                   queue |-> <<>>,
                                   filter_criteria |-> filter_criteria,
                                   last_activity |-> utcnow])
          /\ global_subscriptions' = bus.g
          /\ subscriptions' = bus.s
          /\ stats' = [stats EXCEPT !.subscriptions_created = @ + 1]
          /\ interest' = Append(interest, event_types)
          /\ gen' = Append(gen, "created")
          /\ yielded' = Append(yielded, <<>>)
          /\ next_uuid' = IF subscription_id = NoId THEN next_uuid + 1 ELSE next_uuid
          /\ last' = NoCall
    /\ UNCHANGED <<max_queue_size, running, cleanup_task, tasks, stop_waiting, next_event>>

(***************************************************************************)
(* _cleanup_subscription, and unsubscribe which only calls it.             *)
(***************************************************************************)
\* faulty variant: the loop over the event types stops at the first bucket
\* that holds the id
_cleanup_subscription_first_bucket(bus, subscription_id) ==
    LET found == subscription_id \in RegisteredIds(bus)
        holding == {i \in DOMAIN EventType : subscription_id \in Keys(bus.s[EventType[i]])}
        first == IF holding = {} THEN 0
                 ELSE CHOOSE i \in holding : \A j \in holding : i <= j
    IN [bus |-> [g |-> DictDel(bus.g, subscription_id),
                 s |-> [t \in EventTypes |->
                          IF first # 0 /\ t = EventType[first]
                          THEN DictDel(bus.s[t], subscription_id)
                          ELSE bus.s[t]],
                 stats |-> IF found
                           THEN [bus.stats EXCEPT !.subscriptions_cleaned = @ + 1]
                           ELSE bus.stats],
        found |-> found]

\* faulty variant: subscriptions_cleaned counts once per bucket left
_cleanup_subscription_per_bucket(bus, subscription_id) ==
    LET found == subscription_id \in RegisteredIds(bus)
        buckets == Cardinality({t \in EventTypes : subscription_id \in Keys(bus.s[t])})
                      + (IF subscription_id \in Keys(bus.g) THEN 1 ELSE 0)
    IN [bus |-> [g |-> DictDel(bus.g, subscription_id),
                 s |-> [t \in EventTypes |-> DictDel(bus.s[t], subscription_id)],
                 stats |-> [bus.stats EXCEPT !.subscriptions_cleaned = @ + buckets]],
        found |-> found]

\* faulty variant: subscriptions_cleaned counts every call, found or not
_cleanup_subscription_counts_calls(bus, subscription_id) ==
    LET found == subscription_id \in RegisteredIds(bus)
    IN [bus |-> [g |-> DictDel(bus.g, subscription_id),
                 s |-> [t \in EventTypes |-> DictDel(bus.s[t], subscription_id)],
                 stats |-> [bus.stats EXCEPT !.subscriptions_cleaned = @ + 1]],
        found |-> found]

_cleanup_subscription(bus, subscription_id) ==
    LET found == subscription_id \in RegisteredIds(bus)
    IN [bus |-> [g |-> DictDel(bus.g, subscription_id),
                 s |-> [t \in EventTypes |-> DictDel(bus.s[t], subscription_id)],
                 stats |-> IF found
                           THEN [bus.stats EXCEPT !.subscriptions_cleaned = @ + 1]
                           ELSE bus.stats],
        found |-> found]

Unsubscribe(subscription_id) ==
    /\ \E r \in {_cleanup_subscription(Bus, subscription_id)} :
          /\ global_subscriptions' = r.bus.g
          /\ subscriptions' = r.bus.s
          /\ stats' = r.bus.stats
          /\ last' = [op |-> "unsubscribe", arg |-> subscription_id, ret |-> r.found]
    /\ UNCHANGED <<max_queue_size, running, cleanup_task, tasks, stop_waiting,
                   subs, interest, gen, yielded, next_uuid, next_event>>

(***************************************************************************)
(* publish and _deliver_event.  Neither suspends: put_nowait never waits,  *)
(* so the whole fan-out is one step.                                       *)
(***************************************************************************)
\* faulty variant: the event is put at the front of the queue
_deliver_event_prepends(event, subscription) ==
    IF QueueFull(subscription.queue, max_queue_size)
    THEN [sub |-> subscription, ret |-> 0]
    ELSE [sub |-> [subscription EXCEPT !.queue = <<event>> \o @], ret |-> 1]

\* faulty variant: a dropped event is counted as delivered
_deliver_event_counts_drops(event, subscription) ==
    IF QueueFull(subscription.queue, max_queue_size)
    THEN [sub |-> subscription, ret |-> 1]
    ELSE [sub |-> [subscription EXCEPT !.queue = Append(@, event)], ret |-> 1]

_deliver_event(event, subscription) ==
    IF QueueFull(subscription.queue, max_queue_size)
    THEN [sub |-> subscription, ret |-> 0]
    ELSE [sub |-> [subscription EXCEPT !.queue = Append(@, event)], ret |-> 1]

RECURSIVE DeliverLoop_aborts(_, _, _)
\* faulty variant: a full queue ends the fan-out
DeliverLoop_aborts(objs, event, acc) ==
    IF objs = <<>> THEN acc
    ELSE LET o == Head(objs)
             wanted == matches_filter(event, acc.subs[o].filter_criteria)
             r == IF wanted
                  THEN _deliver_event(event, acc.subs[o])
                  ELSE [sub |-> acc.subs[o], ret |-> 0]
         IN IF wanted /\ r.ret = 0 THEN acc
            ELSE CHOOSE out \in {DeliverLoop_aborts(Tail(objs), event, a) :
                    a \in {[subs |-> [acc.subs EXCEPT ![o] = r.sub],
                            delivered_count |-> acc.delivered_count + r.ret]}} : TRUE

RECURSIVE DeliverLoop_unfiltered(_, _, _)
\* faulty variant: matches_filter is not asked
DeliverLoop_unfiltered(objs, event, acc) ==
    IF objs = <<>> THEN acc
    ELSE LET o == Head(objs)
             r == _deliver_event(event, acc.subs[o])
         IN CHOOSE out \in {DeliverLoop_unfiltered(Tail(objs), event, a) :
                    a \in {[subs |-> [acc.subs EXCEPT ![o] = r.sub],
                            delivered_count |-> acc.delivered_count + r.ret]}} : TRUE

RECURSIVE DeliverLoop(_, _, _)
\* for subscription in <dict>.values(): if matches_filter: count += _deliver_event
\* (the queues and the count after one iteration are bound as a value before
\* the next iteration reads them)
DeliverLoop(objs, event, acc) ==
    IF objs = <<>> THEN acc
    ELSE LET o == Head(objs)
             r == IF matches_filter(event, acc.subs[o].filter_criteria)
                  THEN _deliver_event(event, acc.subs[o])
                  ELSE [sub |-> acc.subs[o], ret |-> 0]
         IN CHOOSE out \in {DeliverLoop(Tail(objs), event, a) :
                    a \in {[subs |-> [acc.subs EXCEPT ![o] = r.sub],
                            delivered_count |-> acc.delivered_count + r.ret]}} : TRUE

\* the candidates of one publish, in iteration order: the global dict, then
\* the dict of the event's type
\* faulty variant: the second loop walks the dicts of all event types
Candidates_all_buckets(bus, event) ==
    Values(bus.g) \o Concat([i \in DOMAIN EventType |-> Values(bus.s[EventType[i]])])

Candidates(bus, event) == Values(bus.g) \o Values(bus.s[event.event_type])

\* faulty variant: the fan-out is suspended between its two loops and a later
\* publish runs in between, so that in the queues of the type bucket the
\* event stands behind the one published after it
publish_overtaken(bus, event) ==
    LET r == DeliverLoop(Candidates(bus, event), event,
                         [subs |-> subs, delivered_count |-> 0])
        late == Elems(Values(bus.s[event.event_type]))
        swap(q) == IF Len(q) >= 2 /\ q[Len(q)] = event
                   THEN SubSeq(q, 1, Len(q) - 2) \o <<event, q[Len(q) - 1]>>
                   ELSE q
    IN [subs |-> [o \in DOMAIN r.subs |->
                    IF o \in late THEN [r.subs[o] EXCEPT !.queue = swap(@)]
                    ELSE r.subs[o]],
        delivered_count |-> r.delivered_count]

publish(bus, event) ==
    DeliverLoop(Candidates(bus, event), event, [subs |-> subs, delivered_count |-> 0])

\* faulty variant: "await queue.put(event)", which waits for room
PutWaits_for_room(queue, maxsize) == maxsize > 0 /\ Len(queue) >= maxsize

\* queue.put_nowait(event) never suspends its caller
PutWaits(queue, maxsize) == FALSE

\* the fan-out would be suspended at one of the subscriptions it delivers to
publish_waits(bus, event) ==
    \E i \in DOMAIN Candidates(bus, event) :
        LET subscription == subs[Candidates(bus, event)[i]]
        IN /\ matches_filter(event, subscription.filter_criteria)
           /\ PutWaits(subscription.queue, max_queue_size)

\* faulty variant: the running flag is not looked at
publish_drops_never == FALSE

\* "if not self._running: ... return 0"
publish_drops == ~running

\* publish, from the call to its return: a step only when nothing suspends it
Publish(event) ==
    /\ next_event <= MaxEvents
    /\ event.event_id = next_event
    /\ publish_drops \/ ~publish_waits(Bus, event)
    /\ next_event' = next_event + 1
    /\ IF publish_drops
       THEN /\ last' = [op |-> "publish", arg |-> event, ret |-> 0]
            /\ UNCHANGED <<subs, stats>>
       ELSE \E r \in {publish(Bus, event)} :
               /\ subs' = r.subs
               /\ stats' = [stats EXCEPT !.events_published = @ + 1,
                                         !.total_deliveries = @ + r.delivered_count]
               /\ last' = [op |-> "publish", arg |-> event, ret |-> r.delivered_count]
    /\ UNCHANGED <<max_queue_size, running, global_subscriptions, subscriptions,
                   cleanup_task, tasks, stop_waiting, interest, gen, yielded, next_uuid>>

(***************************************************************************)
(* _event_generator, driven by its consumer.  A generator object is        *)
(*   "created"  returned by subscribe, body not entered yet                *)
(*   "waiting"  suspended in "await subscription.queue.get()"              *)
(*   "yielded"  suspended at "yield event"                                 *)
(*   "closed"   finished                                                   *)
(***************************************************************************)
\* Subscription.update_activity
update_activity(subscription) == [subscription EXCEPT !.last_activity = utcnow]

\* queue.get() returning: the head of the queue leaves it, update_activity()
\* runs and the generator suspends at the yield
GetAndYield(o) ==
    /\ subs' = [subs EXCEPT ![o] = update_activity([@ EXCEPT !.queue = Tail(@)])]
    /\ yielded' = [yielded EXCEPT ![o] = <<Head(subs[o].queue)>>]
    /\ gen' = [gen EXCEPT ![o] = "yielded"]

\* the consumer asks for the next event (__anext__): the body runs from its
\* start, or from the yield through queue.task_done(), up to queue.get()
Pull(o) ==
    /\ gen[o] \in {"created", "yielded"}
    /\ IF subs[o].queue # <<>>
       THEN GetAndYield(o)
       ELSE /\ gen' = [gen EXCEPT ![o] = "waiting"]
            /\ yielded' = [yielded EXCEPT ![o] = <<>>]
            /\ UNCHANGED subs
    /\ last' = NoCall
    /\ UNCHANGED <<max_queue_size, running, global_subscriptions, subscriptions, stats,
                   cleanup_task, tasks, stop_waiting, interest, next_uuid, next_event>>

\* faulty variant: the woken generator takes the event off the queue and
\* waits for the next one without yielding it
Resume_drops(o) ==
    /\ gen[o] = "waiting"
    /\ subs[o].queue # <<>>
    /\ subs' = [subs EXCEPT ![o] = update_activity([@ EXCEPT !.queue = Tail(@)])]
    /\ last' = NoCall
    /\ UNCHANGED <<max_queue_size, running, global_subscriptions, subscriptions, stats,
                   cleanup_task, tasks, stop_waiting, interest, gen, yielded,
                   next_uuid, next_event>>

\* a put_nowait woke the getter: the suspended queue.get() returns
Resume(o) ==
    /\ gen[o] = "waiting"
    /\ subs[o].queue # <<>>
    /\ GetAndYield(o)
    /\ last' = NoCall
    /\ UNCHANGED <<max_queue_size, running, global_subscriptions, subscriptions, stats,
                   cleanup_task, tasks, stop_waiting, interest, next_uuid, next_event>>

\* whether closing the generator in this state runs its finally clause: the
\* try statement was entered only if the body has started
RunsFinally(state) == state \in {"waiting", "yielded"}

\* the consumer ends the sequence: aclose() on a generator that is not running
\* ("created": nothing of the body runs; "yielded": GeneratorExit at the
\* yield), or cancellation of the task suspended in queue.get() ("waiting")
Close(o) ==
    /\ gen[o] \in {"created", "waiting", "yielded"}
    /\ IF RunsFinally(gen[o])
       THEN \E r \in {_cleanup_subscription(Bus, subs[o].subscription_id)} :
               /\ global_subscriptions' = r.bus.g
               /\ subscriptions' = r.bus.s
               /\ stats' = r.bus.stats
       ELSE UNCHANGED <<global_subscriptions, subscriptions, stats>>
    /\ gen' = [gen EXCEPT ![o] = "closed"]
    /\ yielded' = [yielded EXCEPT ![o] = <<>>]
    /\ last' = NoCall
    /\ UNCHANGED <<max_queue_size, running, cleanup_task, tasks, stop_waiting,
                   subs, interest, next_uuid, next_event>>

(***************************************************************************)
(* The subscription resolvers.  A resolver calls subscribe and iterates    *)
(* the generator with "async for" inside its own generator, which the      *)
(* client drives.  The resolver never closes the bus generator: when the   *)
(* resolver ends, the generator, suspended at its yield, is unreferenced,  *)
(* and the event loop's finalizer for asynchronous generators closes it.   *)
(* Two more positions of a generator:                                      *)
(*   "error"      suspended at its yield while the resolver, whose         *)
(*                conversion or authorization of the event raised, is      *)
(*                suspended at the yield of its error event                *)
(*   "abandoned"  suspended at its yield, the resolver has ended           *)
(***************************************************************************)
\* the client cancels the stream while the resolver waits in "async for":
\* CancelledError is raised in queue.get() and passes the finally clause
ClientCancel(o) ==
    /\ gen[o] = "waiting"
    /\ Close(o)

\* the generator hands the resolver an event and create_change_event_from_bus_event
\* or _is_authorized_for_event raises: "except Exception" yields the error event
ResolverFails(o) ==
    /\ gen[o] \in {"waiting", "yielded"}
    /\ subs[o].queue # <<>>
    /\ subs' = [subs EXCEPT ![o] = update_activity([@ EXCEPT !.queue = Tail(@)])]
    /\ yielded' = [yielded EXCEPT ![o] = <<Head(subs[o].queue)>>]
    /\ gen' = [gen EXCEPT ![o] = "error"]
    /\ last' = NoCall
    /\ UNCHANGED <<max_queue_size, running, global_subscriptions, subscriptions, stats,
                   cleanup_task, tasks, stop_waiting, interest, next_uuid, next_event>>

\* the resolver ends: the client closes the stream at the resolver's yield
\* (GeneratorExit passes "except Exception"), or pulls again after the error
\* event and the resolver returns
ResolverEnds(o) ==
    /\ gen[o] \in {"yielded", "error"}
    /\ gen' = [gen EXCEPT ![o] = "abandoned"]
    /\ last' = NoCall
    /\ UNCHANGED <<max_queue_size, running, global_subscriptions, subscriptions, stats,
                   cleanup_task, tasks, stop_waiting, subs, interest, yielded,
                   next_uuid, next_event>>

\* faulty variant: the unreferenced generator is dropped without being closed
Finalize_drops(o) ==
    /\ gen[o] = "abandoned"
    /\ gen' = [gen EXCEPT ![o] = "closed"]
    /\ yielded' = [yielded EXCEPT ![o] = <<>>]
    /\ last' = NoCall
    /\ UNCHANGED <<max_queue_size, running, global_subscriptions, subscriptions, stats,
                   cleanup_task, tasks, stop_waiting, subs, interest,
                   next_uuid, next_event>>

\* the finalizer's aclose() runs: GeneratorExit at the yield, then the
\* finally clause
Finalize(o) ==
    /\ gen[o] = "abandoned"
    /\ \E r \in {_cleanup_subscription(Bus, subs[o].subscription_id)} :
          /\ global_subscriptions' = r.bus.g
          /\ subscriptions' = r.bus.s
          /\ stats' = r.bus.stats
    /\ gen' = [gen EXCEPT ![o] = "closed"]
    /\ yielded' = [yielded EXCEPT ![o] = <<>>]
    /\ last' = NoCall
    /\ UNCHANGED <<max_queue_size, running, cleanup_task, tasks, stop_waiting,
                   subs, interest, next_uuid, next_event>>

(***************************************************************************)
(* The reaper: _cleanup_loop and _cleanup_stale_subscriptions.  A task is  *)
(*   "new"         created by start(), not run yet                         *)
(*   "sleeping"    suspended in asyncio.sleep(cleanup_interval)            *)
(*   "cancelling"  cancel() was called on it, CancelledError not yet raised*)
(*   "finished"                                                            *)
(***************************************************************************)
RECURSIVE CleanupIds(_, _)
\* for sub_id in ids: await self._cleanup_subscription(sub_id)
\* (the registry after one call is bound as a value, through a singleton set,
\* before the next call reads it)
CleanupIds(bus, ids) ==
    IF ids = <<>> THEN bus
    ELSE CHOOSE r \in {CleanupIds(b, Tail(ids)) :
                        b \in {_cleanup_subscription(bus, Head(ids)).bus}} : TRUE

\* subscription.last_activity.timestamp() < cutoff_time
IsStale(subscription) == subscription.last_activity < utcnow - (cleanup_interval * 2)

\* the ids of the stale subscriptions of one dict, in its order
StaleIn(d) ==
    LET stale == SelectSeq(d, LAMBDA kv : IsStale(subs[kv.value]))
    IN [i \in DOMAIN stale |-> stale[i].key]

stale_ids(bus) ==
    StaleIn(bus.g) \o Concat([i \in DOMAIN EventType |-> StaleIn(bus.s[EventType[i]])])

_cleanup_stale_subscriptions(bus) == CleanupIds(bus, stale_ids(bus))

all_ids(bus) ==
    KeyList(bus.g) \o Concat([i \in DOMAIN EventType |-> KeyList(bus.s[EventType[i]])])

\* faulty variant: only the global bucket is emptied
_cleanup_all_subscriptions_global_only(bus) == CleanupIds(bus, KeyList(bus.g))

_cleanup_all_subscriptions(bus) == CleanupIds(bus, all_ids(bus))

\* the task starts running _cleanup_loop: "while self._running", then sleep
ReaperRun(t) ==
    /\ tasks[t].state = "new"
    /\ tasks' = [tasks EXCEPT ![t] = [state |-> IF running THEN "sleeping" ELSE "finished",
                                      slept |-> 0]]
    /\ last' = NoCall
    /\ UNCHANGED <<max_queue_size, running, global_subscriptions, subscriptions, stats,
                   cleanup_task, stop_waiting, subs, interest, gen, yielded,
                   next_uuid, next_event>>

\* the sleep is over: one pass, then "while self._running" again
ReaperPass(t) ==
    /\ tasks[t].state = "sleeping"
    /\ tasks[t].slept >= cleanup_interval
    /\ \E bus \in {_cleanup_stale_subscriptions(Bus)} :
          /\ global_subscriptions' = bus.g
          /\ subscriptions' = bus.s
          /\ stats' = bus.stats
    /\ tasks' = [tasks EXCEPT ![t] = [state |-> IF running THEN "sleeping" ELSE "finished",
                                      slept |-> 0]]
    /\ last' = [op |-> "reaper_pass", arg |-> 0, ret |-> 0]
    /\ UNCHANGED <<max_queue_size, running, cleanup_task, stop_waiting, subs, interest,
                   gen, yielded, next_uuid, next_event>>

\* faulty variant: the error is not caught and ends the task
AfterError_ends == [state |-> "finished", slept |-> 0]

\* "except Exception": the error is logged, then "while self._running" again
AfterError == [state |-> IF running THEN "sleeping" ELSE "finished", slept |-> 0]

\* the sleep is over and the pass raises an error other than CancelledError,
\* before its first removal or after any number of them
ReaperPassRaises(t) ==
    /\ tasks[t].state = "sleeping"
    /\ tasks[t].slept >= cleanup_interval
    /\ \E n \in 0..Len(stale_ids(Bus)) :
          \E bus \in {CleanupIds(Bus, SubSeq(stale_ids(Bus), 1, n))} :
              /\ global_subscriptions' = bus.g
              /\ subscriptions' = bus.s
              /\ stats' = bus.stats
    /\ tasks' = [tasks EXCEPT ![t] = AfterError]
    /\ last' = [op |-> "reaper_error", arg |-> 0, ret |-> 0]
    /\ UNCHANGED <<max_queue_size, running, cleanup_task, stop_waiting, subs, interest,
                   gen, yielded, next_uuid, next_event>>

\* CancelledError reaches the cancelled task: a task that never ran ends
\* cancelled, a sleeping one leaves the loop through "break"
ReaperExit(t) ==
    /\ tasks[t].state = "cancelling"
    /\ tasks' = [tasks EXCEPT ![t] = [state |-> "finished", slept |-> 0]]
    /\ last' = NoCall
    /\ UNCHANGED <<max_queue_size, running, global_subscriptions, subscriptions, stats,
                   cleanup_task, stop_waiting, subs, interest, gen, yielded,
                   next_uuid, next_event>>

(***************************************************************************)
(* start and stop                                                          *)
(***************************************************************************)
\* faulty variant: without "if self._running: return"
StartBody_restarts ==
    /\ running' = TRUE
    /\ tasks' = Append(tasks, [state |-> "new", slept |-> 0])
    /\ stop_waiting' = Append(stop_waiting, 0)
    /\ cleanup_task' = Len(tasks) + 1
    /\ UNCHANGED <<max_queue_size, global_subscriptions, subscriptions, stats,
                   subs, interest, gen, yielded, next_uuid, next_event>>

\* what start() does to the bus
\* start() in a behaviour that creates at most n reaper tasks
StartUpTo(n) ==
    /\ IF running
       THEN UNCHANGED <<running, cleanup_task, tasks, stop_waiting>>
       ELSE /\ Len(tasks) < n
            /\ running' = TRUE
            /\ tasks' = Append(tasks, [state |-> "new", slept |-> 0])
            /\ stop_waiting' = Append(stop_waiting, 0)
            /\ cleanup_task' = Len(tasks) + 1
    /\ UNCHANGED <<max_queue_size, global_subscriptions, subscriptions, stats,
                   subs, interest, gen, yielded, next_uuid, next_event>>

StartBody == StartUpTo(MaxTasks)

Start == StartBody /\ last' = NoCall

\* start(), the call on record with the flag it found
StartCall == StartBody /\ last' = [op |-> "start", arg |-> running, ret |-> 0]

\* faulty variant: stop() does not cancel the reaper task
Cancel_forgotten(task) == task

\* Task.cancel(): asks an unfinished task to end
Cancel(task) ==
    IF task.state = "finished" THEN task ELSE [state |-> "cancelling", slept |-> 0]

\* what follows "await self._cleanup_task" in stop
StopTail ==
    /\ \E bus \in {_cleanup_all_subscriptions(Bus)} :
          /\ global_subscriptions' = bus.g
          /\ subscriptions' = bus.s
          /\ stats' = bus.stats
    /\ last' = [op |-> "stop", arg |-> Registered(Bus), ret |-> 0]

\* "if self._cleanup_task" finds no task, or the awaited task is done already
NothingToAwait ==
    IF cleanup_task = 0 THEN TRUE ELSE tasks[cleanup_task].state = "finished"

\* stop() when there is no reaper task, or a finished one: nothing to wait for
StopNow ==
    /\ NothingToAwait
    /\ running' = FALSE
    /\ StopTail
    /\ UNCHANGED <<max_queue_size, cleanup_task, tasks, stop_waiting, subs, interest,
                   gen, yielded, next_uuid, next_event>>

\* stop() up to "await self._cleanup_task" on an unfinished task
StopBegin ==
    /\ ~NothingToAwait
    /\ stop_waiting[cleanup_task] < MaxStops
    /\ running' = FALSE
    /\ tasks' = [tasks EXCEPT ![cleanup_task] = Cancel(@)]
    /\ stop_waiting' = [stop_waiting EXCEPT ![cleanup_task] = @ + 1]
    /\ last' = NoCall
    /\ UNCHANGED <<max_queue_size, global_subscriptions, subscriptions, stats,
                   cleanup_task, subs, interest, gen, yielded, next_uuid, next_event>>

\* the awaited task has finished: the suspended stop() goes on
StopResume(t) ==
    /\ stop_waiting[t] > 0
    /\ tasks[t].state = "finished"
    /\ stop_waiting' = [stop_waiting EXCEPT ![t] = @ - 1]
    /\ StopTail
    /\ UNCHANGED <<max_queue_size, running, cleanup_task, tasks, subs, interest,
                   gen, yielded, next_uuid, next_event>>

(***************************************************************************)
(* Time passes by one unit: every stored timestamp recedes by one against  *)
(* the present, and every sleep has lasted one unit longer.                *)
(***************************************************************************)
Max(a, b) == IF a >= b THEN a ELSE b

Min(a, b) == IF a <= b THEN a ELSE b

Tick ==
    /\ subs' = [o \in DOMAIN subs |->
                   [subs[o] EXCEPT !.last_activity = Max(@ - 1, Oldest)]]
    /\ tasks' = [t \in DOMAIN tasks |->
                   IF tasks[t].state = "sleeping"
                   THEN [tasks[t] EXCEPT !.slept = Min(@ + 1, cleanup_interval)]
                   ELSE tasks[t]]
    /\ last' = NoCall
    /\ UNCHANGED <<max_queue_size, running, global_subscriptions, subscriptions, stats,
                   cleanup_task, stop_waiting, interest, gen, yielded,
                   next_uuid, next_event>>

(***************************************************************************)
(* get_stats: a read of the counters, the bucket sizes and the flag.       *)
(***************************************************************************)
get_stats ==
    [events_published |-> stats.events_published,
     subscriptions_created |-> stats.subscriptions_created,
     subscriptions_cleaned |-> stats.subscriptions_cleaned,
     total_deliveries |-> stats.total_deliveries,
     active_subscriptions |->
         Len(global_subscriptions)
             + Len(Concat([i \in DOMAIN EventType |-> subscriptions[EventType[i]]])),
     is_running |-> running]

(***************************************************************************)
(* The calls the service makes.                                            *)
(***************************************************************************)
\* event_types as the resolvers and the scripts pass it
SubscribeArgs ==
    {<<NoneList, [entity_ids |-> <<"a">>]>>,
     <<SomeList(<<"CREATED", "UPDATED">>), EmptyDict>>}

\* {{ PrefixName }}Event(event_type=..., entity_id=...)
Event(event_type, entity_id) ==
    [event_id |-> next_event, event_type |-> event_type, entity_id |-> entity_id,
     user_id |-> None, metadata |-> EmptyDict]

EventArgs == {Event("CREATED", "a"), Event("CREATED", "b"), Event("DELETED", "a")}

TimedSubscribeArgs ==
    {<<NoneList, EmptyDict>>, <<SomeList(<<"CREATED", "UPDATED">>), EmptyDict>>}

TimedEventArgs == {Event("CREATED", "a")}

\* the calls of the service and the steps of its tasks, time standing still
Calls(subscribe_args, event_args) ==
    \/ Start
    \/ StopNow
    \/ StopBegin
    \/ \E t \in Tasks : StopResume(t)
    \/ \E t \in Tasks : ReaperRun(t)
    \/ \E t \in Tasks : ReaperExit(t)
    \/ \E a \in subscribe_args : Subscribe(a[1], a[2], NoId)
    \/ \E id \in 1..(next_uuid - 1) : Unsubscribe(id)
    \/ \E e \in event_args : Publish(e)
    \/ \E o \in Objs : Pull(o)
    \/ \E o \in Objs : Resume(o)
    \/ \E o \in Objs : Close(o)

\* behaviours shorter than one cleanup interval: the reaper only sleeps
Next == Calls(SubscribeArgs, EventArgs)

Spec == Init /\ [][Next]_vars

\* behaviours in which time passes and the reaper wakes
NextTimed ==
    \/ Start
    \/ StopNow
    \/ StopBegin
    \/ \E t \in Tasks : StopResume(t)
    \/ \E t \in Tasks : ReaperRun(t)
    \/ \E t \in Tasks : ReaperExit(t)
    \/ \E a \in TimedSubscribeArgs : Subscribe(a[1], a[2], NoId)
    \/ \E e \in TimedEventArgs : Publish(e)
    \/ \E o \in Objs : Pull(o)
    \/ \E o \in Objs : Resume(o)
    \/ \E t \in Tasks : ReaperPass(t)
    \/ Tick

\* the event loop runs every task that is ready to run, and time goes on
Fairness ==
    /\ \A o \in 1..MaxSubs : WF_vars(o \in Objs /\ Resume(o))
    /\ \A t \in 1..MaxTasks : WF_vars(t \in Tasks /\ ReaperRun(t))
    /\ \A t \in 1..MaxTasks : WF_vars(t \in Tasks /\ ReaperPass(t))
    /\ \A t \in 1..MaxTasks : WF_vars(t \in Tasks /\ ReaperExit(t))
    /\ \A t \in 1..MaxTasks : WF_vars(t \in Tasks /\ StopResume(t))
    /\ WF_vars(Tick)

\* {{ PrefixName }}EventBus(max_queue_size=1, cleanup_interval=cleanup_interval)
InitTimed == Init /\ max_queue_size = 1

TimedSpec == InitTimed /\ [][NextTimed]_vars /\ Fairness

\* a service that is started and left running while time passes: the calls of
\* TimedSpec without stop()
NextReaper ==
    \/ Start
    \/ \E t \in Tasks : ReaperRun(t)
    \/ \E a \in TimedSubscribeArgs : Subscribe(a[1], a[2], NoId)
    \/ \E e \in TimedEventArgs : Publish(e)
    \/ \E o \in Objs : Pull(o)
    \/ \E o \in Objs : Resume(o)
    \/ \E t \in Tasks : ReaperPass(t)
    \/ Tick

\* the event loop runs the reaper task and every generator that is ready,
\* and time goes on
ReaperFairness ==
    /\ \A t \in 1..MaxTasks : WF_vars(t \in Tasks /\ ReaperRun(t))
    /\ \A t \in 1..MaxTasks : WF_vars(t \in Tasks /\ ReaperPass(t))
    /\ WF_vars(Tick)

ReaperSpec == InitTimed /\ [][NextReaper]_vars /\ ReaperFairness

\* the consumers' side of a running service: subscriptions are made and
\* ended explicitly, events are published and pulled, and the event loop
\* runs every generator whose queue.get() can return
NextStreams ==
    \/ Start
    \/ \E t \in Tasks : ReaperRun(t)
    \/ \E a \in SubscribeArgs : Subscribe(a[1], a[2], NoId)
    \/ \E id \in 1..(next_uuid - 1) : Unsubscribe(id)
    \/ \E e \in EventArgs : Publish(e)
    \/ \E o \in Objs : Pull(o)
    \/ \E o \in Objs : Resume(o)

StreamFairness == \A o \in 1..MaxSubs : WF_vars(o \in Objs /\ Resume(o))

StreamSpec == Init /\ [][NextStreams]_vars /\ StreamFairness

\* a service that takes its subscriptions while the bus is down, before
\* start() or after stop(), and publishes whenever it likes
NextLifecycle ==
    \/ StartCall
    \/ StopNow
    \/ StopBegin
    \/ \E t \in Tasks : StopResume(t)
    \/ \E t \in Tasks : ReaperRun(t)
    \/ \E t \in Tasks : ReaperExit(t)
    \/ /\ ~running
       /\ \E a \in SubscribeArgs : Subscribe(a[1], a[2], NoId)
    \/ \E e \in EventArgs : Publish(e)
    \/ \E o \in Objs : Pull(o)
    \/ \E o \in Objs : Resume(o)

LifecycleSpec == Init /\ [][NextLifecycle]_vars

\* a service that is started and left running with subscriptions nobody
\* reads, and reaper passes that may raise.  An error is the exception: of
\* the wake-ups of the reaper, which come again and again, some run their
\* pass to its end
NextFault ==
    \/ Start
    \/ \E t \in Tasks : ReaperRun(t)
    \/ \E a \in TimedSubscribeArgs : Subscribe(a[1], a[2], NoId)
    \/ \E t \in Tasks : ReaperPass(t)
    \/ \E t \in Tasks : ReaperPassRaises(t)
    \/ Tick

FaultFairness ==
    /\ \A t \in 1..MaxTasks : WF_vars(t \in Tasks /\ ReaperRun(t))
    /\ \A t \in 1..MaxTasks : SF_vars(t \in Tasks /\ ReaperPass(t))
    /\ WF_vars(Tick)

FaultSpec == InitTimed /\ [][NextFault]_vars /\ FaultFairness

\* the running service of ReaperSpec with a caller that also passes to
\* subscribe an id the bus has returned before
NextReaperIds ==
    \/ NextReaper
    \/ \E a \in TimedSubscribeArgs : \E id \in 1..(next_uuid - 1) : Subscribe(a[1], a[2], id)

ReaperIdSpec == InitTimed /\ [][NextReaperIds]_vars

\* a step of the reaper task is due: its first run, or the pass after a sleep
\* of cleanup_interval
ReaperDue ==
    \E t \in Tasks :
        \/ tasks[t].state = "new"
        \/ tasks[t].state = "sleeping" /\ tasks[t].slept >= cleanup_interval

\* the event loop is not held up: time goes on only when no step is due
TimelyTick == ~ReaperDue /\ Tick

\* a running service with subscriptions nobody reads, made while it runs,
\* and a reaper that wakes exactly when its sleep is over
NextTimely ==
    \/ Start
    \/ \E t \in Tasks : ReaperRun(t)
    \/ /\ running
       /\ \E a \in TimedSubscribeArgs : Subscribe(a[1], a[2], NoId)
    \/ \E e \in TimedEventArgs : Publish(e)
    \/ \E t \in Tasks : ReaperPass(t)
    \/ TimelyTick

TimelySpec == InitTimed /\ [][NextTimely]_vars

\* the clients of the subscription resolvers on a started bus without a
\* reaper pass: streams are opened, read, cancelled and closed, conversions
\* fail, and the event loop runs the finalizer of every abandoned generator
NextResolvers ==
    \/ Start
    \/ \E a \in SubscribeArgs : Subscribe(a[1], a[2], NoId)
    \/ \E e \in EventArgs : Publish(e)
    \/ \E o \in Objs : Pull(o)
    \/ \E o \in Objs : Resume(o)
    \/ \E o \in Objs : ClientCancel(o)
    \/ \E o \in Objs : ResolverFails(o)
    \/ \E o \in Objs : ResolverEnds(o)
    \/ \E o \in Objs : Finalize(o)

ResolverFairness == \A o \in 1..MaxSubs : WF_vars(o \in Objs /\ Finalize(o))

ResolverSpec == Init /\ [][NextResolvers]_vars /\ ResolverFairness

(***************************************************************************)
(* The mutation resolver's batch publishing.  _publish_batch_creation_event*)
(* awaits _publish_creation_event for every entity and then publish for    *)
(* the batch event; none of them suspends, so the batch is one step.  An   *)
(* error in building or publishing an event is caught where it is raised:  *)
(* `failed` holds the positions, 1..N for the creation events and N+1 for  *)
(* the batch event, at which that happens.                                 *)
(***************************************************************************)
\* {{ PrefixName }}Event(event_type=EventType.CREATED, entity_id=str(entity.id), ...)
CreationEvent(entity, id) ==
    [event_id |-> id, event_type |-> "CREATED", entity_id |-> entity,
     user_id |-> None, metadata |-> [k \in {"operation"} |-> "create"]]

\* {{ PrefixName }}Event(event_type=EventType.BATCH_OPERATION, entity_id=None, ...)
BatchOperationEvent(id) ==
    [event_id |-> id, event_type |-> "BATCH_OPERATION", entity_id |-> None,
     user_id |-> None, metadata |-> [k \in {"operation"} |-> "batch_create"]]

\* faulty variant: the batch event is published before the creation events
BatchEvents_batch_first(entities, failed) ==
    LET N == Len(entities)
        kept == SelectSeq([i \in 1..(N + 1) |-> IF i = 1 THEN N + 1 ELSE i - 1],
                          LAMBDA i : i \notin failed)
    IN [j \in DOMAIN kept |->
           IF kept[j] <= N
           THEN CreationEvent(entities[kept[j]], next_event + j - 1)
           ELSE BatchOperationEvent(next_event + j - 1)]

\* the events the batch hands to publish, in the order of the calls
BatchEvents(entities, failed) ==
    LET N == Len(entities)
        kept == SelectSeq([i \in 1..(N + 1) |-> i], LAMBDA i : i \notin failed)
    IN [j \in DOMAIN kept |->
           IF kept[j] <= N
           THEN CreationEvent(entities[kept[j]], next_event + j - 1)
           ELSE BatchOperationEvent(next_event + j - 1)]

RECURSIVE PublishEach(_, _)
\* one publish after the other, each on the queues the one before has left
PublishEach(acc, events) ==
    IF events = <<>> \/ publish_drops THEN acc
    ELSE CHOOSE out \in
            {PublishEach([subs |-> r.subs,
                          events_published |-> acc.events_published + 1,
                          total_deliveries |-> acc.total_deliveries + r.delivered_count],
                         Tail(events)) :
                r \in {DeliverLoop(Candidates(Bus, Head(events)), Head(events),
                                   [subs |-> acc.subs, delivered_count |-> 0])}} : TRUE

PublishBatch(entities, failed) ==
    /\ next_event <= MaxEvents
    /\ \E events \in {BatchEvents(entities, failed)} :
          \E r \in {PublishEach([subs |-> subs, events_published |-> 0,
                                  total_deliveries |-> 0], events)} :
              /\ subs' = r.subs
              /\ stats' = [stats EXCEPT !.events_published = @ + r.events_published,
                                        !.total_deliveries = @ + r.total_deliveries]
              /\ next_event' = next_event + Len(events)
              /\ last' = [op |-> "publish_batch",
                          arg |-> [entities |-> entities, failed |-> failed],
                          ret |-> [events |-> events, raised |-> FALSE]]
    /\ UNCHANGED <<max_queue_size, running, global_subscriptions, subscriptions,
                   cleanup_task, tasks, stop_waiting, interest, gen, yielded, next_uuid>>

\* the entity lists of create_multiple: one to MaxBatch created entities
Batches == {SubSeq(<<"a", "b", "c">>, 1, n) : n \in 1..MaxBatch}

\* a service whose mutations create batches, with consumers that read; the
\* queues are large enough for a whole batch, or too small for it
NextBatch ==
    \/ Start
    \/ \E a \in TimedSubscribeArgs : Subscribe(a[1], a[2], NoId)
    \/ \E entities \in Batches : \E failed \in SUBSET (1..(Len(entities) + 1)) :
          PublishBatch(entities, failed)
    \/ \E o \in Objs : Pull(o)
    \/ \E o \in Objs : Resume(o)

InitBatch == InitSized(1..(MaxBatch + 1))

BatchSpec == InitBatch /\ [][NextBatch]_vars

\* subscribe(event_types=...) with every shape of interest: None, a list of
\* event types, and the empty list
AnyInterestArgs == TimedSubscribeArgs \cup {<<SomeList(<<>>), EmptyDict>>}

NextAnyInterest == Calls(AnyInterestArgs, TimedEventArgs)

AnyInterestSpec == Init /\ [][NextAnyInterest]_vars

\* start() and stop() called in any order and at any moment, also while an
\* earlier stop() waits for the reaper task it cancelled; time passes and
\* the reaper tasks run
NextRestarts ==
    \/ StartUpTo(MaxStarts) /\ last' = NoCall
    \/ StopNow
    \/ StopBegin
    \/ \E t \in Tasks : StopResume(t)
    \/ \E t \in Tasks : ReaperRun(t)
    \/ \E t \in Tasks : ReaperPass(t)
    \/ \E t \in Tasks : ReaperExit(t)
    \/ \E a \in TimedSubscribeArgs : Subscribe(a[1], a[2], NoId)
    \/ Tick

RestartSpec == InitTimed /\ [][NextRestarts]_vars

\* the same calls on a bus constructed with any size from 0 on
InitAnySize == InitSized(0..MaxQueueSize)

SizeSpec == InitAnySize /\ [][Next]_vars

\* the same calls by a caller that also passes subscription_id to subscribe:
\* an id the bus has returned before, whether still registered or removed
NextIds ==
    \/ Next
    \/ \E a \in SubscribeArgs : \E id \in 1..(next_uuid - 1) : Subscribe(a[1], a[2], id)

IdSpec == Init /\ [][NextIds]_vars

(***************************************************************************)
(* SubscriptionFilter.to_event_bus_filter.  A SubscriptionFilter is a      *)
(* record of change_types and ids (None or a list), user_id (None or a     *)
(* string), include_batch_operations and metadata_filters (None or a       *)
(* dict); a filter_criteria dict is a function from its keys.              *)
(***************************************************************************)
\* the if/elif chain from ChangeType to BusEventType
ChangeTypeToBus(change_type) ==
    CASE change_type = "CREATED" -> "CREATED"
      [] change_type = "UPDATED" -> "UPDATED"
      [] change_type = "DELETED" -> "DELETED"
      [] change_type = "STATUS_CHANGED" -> "STATUS_CHANGED"
      [] change_type = "BATCH_OPERATION" -> "BATCH_OPERATION"

\* "if self.x:" for an optional list or dict: None and the empty one are false
Truthy(optional) == ~optional.is_none /\ DOMAIN optional.items # {}

\* filter_criteria[k] = v
CriteriaSet(filter_criteria, k, v) ==
    [x \in DOMAIN filter_criteria \cup {k} |-> IF x = k THEN v ELSE filter_criteria[x]]

\* filter_criteria.get("event_types", [])
GetEventTypes(filter_criteria) ==
    IF "event_types" \in DOMAIN filter_criteria THEN filter_criteria["event_types"] ELSE <<>>

\* [t for t in BusEventType if t != BusEventType.BATCH_OPERATION]
AllButBatch == SelectSeq(EventType, LAMBDA t : t # "BATCH_OPERATION")

to_event_bus_filter(f) ==
    LET c0 == EmptyDict
        c1 == IF Truthy(f.change_types)
              THEN CriteriaSet(c0, "event_types",
                               [i \in DOMAIN f.change_types.items |->
                                    ChangeTypeToBus(f.change_types.items[i])])
              ELSE c0
        c2 == IF Truthy(f.ids) THEN CriteriaSet(c1, "entity_ids", f.ids.items) ELSE c1
        c3 == IF f.user_id \notin {None, ""}
              THEN CriteriaSet(c2, "user_id", f.user_id)
              ELSE c2
        c4 == IF Truthy(f.metadata_filters)
              THEN CriteriaSet(c3, "metadata", f.metadata_filters.items)
              ELSE c3
    IN IF ~f.include_batch_operations
          /\ "BATCH_OPERATION" \notin Elems(GetEventTypes(c4))
       THEN CriteriaSet(c4, "event_types", AllButBatch)
       ELSE c4

(***************************************************************************)
(* The two pure functions, called on their own: the call and its result    *)
(* are what `last` records.                                                *)
(***************************************************************************)
MatchesFilter(event, filter_criteria) ==
    /\ last' = [op |-> "matches_filter",
                arg |-> [event |-> event, filter_criteria |-> filter_criteria],
                ret |-> matches_filter(event, filter_criteria)]
    /\ UNCHANGED <<max_queue_size, running, global_subscriptions, subscriptions, stats,
                   cleanup_task, tasks, stop_waiting, subs, interest, gen, yielded,
                   next_uuid, next_event>>

ToEventBusFilter(f) ==
    /\ last' = [op |-> "to_event_bus_filter", arg |-> f, ret |-> to_event_bus_filter(f)]
    /\ UNCHANGED <<max_queue_size, running, global_subscriptions, subscriptions, stats,
                   cleanup_task, tasks, stop_waiting, subs, interest, gen, yielded,
                   next_uuid, next_event>>

\* events of every type, with and without entity, user and metadata
FilterEvents ==
    {[Event(t, e) EXCEPT !.user_id = u, !.metadata = m] :
        t \in EventTypes, e \in {None, "a", "b"}, u \in {None, "u1", "u2"},
        m \in {EmptyDict, [k \in {"test"} |-> "x"], [k \in {"test"} |-> "y"]}}

\* criteria with every criterion present ...
FullCriteria ==
    [event_types : {<<>>, <<"CREATED">>, <<"CREATED", "DELETED">>},
     entity_ids : {<<"a">>, <<"a", "b">>},
     user_id : {"u1", None},
     metadata : {[k \in {"test"} |-> "x"], [k \in {"test"} |-> None]}]

\* ... and with any of them absent
FilterCriteria ==
    {[k \in present |-> full[k]] :
        full \in FullCriteria,
        present \in SUBSET {"event_types", "entity_ids", "user_id", "metadata"}}

\* the SubscriptionFilter inputs a client can send
SubscriptionFilters ==
    [change_types : {NoneList, SomeList(<<>>), SomeList(<<"CREATED">>),
                     SomeList(<<"CREATED", "BATCH_OPERATION">>),
                     SomeList(<<"UPDATED", "DELETED">>)},
     ids : {NoneList, SomeList(<<"a">>)},
     user_id : {None, "", "u1"},
     include_batch_operations : BOOLEAN,
     metadata_filters : {NoneList, SomeList([k \in {"test"} |-> "x"])}]

\* one call of one of the two functions, on inputs drawn from the sets above
NextFilter ==
    \/ /\ last = NoCall
       /\ \E event \in FilterEvents : \E filter_criteria \in FilterCriteria :
             MatchesFilter(event, filter_criteria)
    \/ /\ last = NoCall
       /\ \E f \in SubscriptionFilters : ToEventBusFilter(f)

FilterSpec == Init /\ [][NextFilter]_vars

(***************************************************************************)
(* Vocabulary of the properties.                                           *)
(***************************************************************************)
\* the Subscription object o is held by some bucket of the registry
Live(o) == o \in Registered(Bus)

\* o was subscribed with interest "all events", or with a list naming the type
Interested(o, event) ==
    interest[o].is_none \/ event.event_type \in Elems(interest[o].items)

\* o's filter_criteria accept the event
Accepts(o, event) == matches_filter(event, subs[o].filter_criteria)

\* o's queue holds fewer than max_queue_size events
HasRoom(o) == Len(subs[o].queue) < max_queue_size

\* the subscriptions a publish of the event is meant to reach
Wanting(event) == {o \in Objs : Live(o) /\ Interested(o, event) /\ Accepts(o, event)}

\* the events o holds: queued, or handed to its consumer at the yield
Held(o) == Elems(subs[o].queue) \cup Elems(yielded[o])

\* the step is a publish call on a running bus
PublishedRunning == last'.op = "publish" /\ running

\* last_activity is older than 2 x cleanup_interval
Older(o) == subs[o].last_activity < utcnow - 2 * cleanup_interval

(***************************************************************************)
(* C1: a publish(E) on a running bus appends E exactly once to the queue   *)
(* of every live subscription whose interest covers E's type, whose filter *)
(* accepts E and whose queue has room, also when the subscription sits in  *)
(* several event-type buckets.                                             *)
(***************************************************************************)
C1_ExactlyOnce ==
    [][PublishedRunning =>
          \A o \in Wanting(last'.arg) :
              HasRoom(o) => subs'[o].queue = Append(subs[o].queue, last'.arg)]_vars

\* a publish has just put its event, once, into the queue of a subscription
\* registered under two event types, which had room for two
C1_Witness ==
    /\ last.op = "publish"
    /\ running
    /\ max_queue_size = 2
    /\ \E o \in Wanting(last.arg) :
          /\ Len(interest[o].items) = 2
          /\ subs[o].queue = <<last.arg>>

(***************************************************************************)
(* C2: whenever the consumer closes or cancels the sequence (before the    *)
(* first pull, while waiting, or after a yield) the subscription leaves    *)
(* every bucket.                                                           *)
(***************************************************************************)
C2_CloseUnsubscribes ==
    [][\A o \in Objs :
          (gen[o] \in {"created", "waiting", "yielded"} /\ gen'[o] = "closed")
              => subs[o].subscription_id \notin RegisteredIds(Bus)']_vars

(***************************************************************************)
(* C3: once stop() has completed, no consumer of a subscription that stop  *)
(* removed stays suspended in its pull forever.                            *)
(***************************************************************************)
\* the consumer of o is suspended in its pull
Suspended(o) == o \in Objs /\ gen[o] = "waiting"

C3_StopEndsSequences ==
    \A o \in 1..MaxSubs :
        (last.op = "stop" /\ o \in last.arg /\ Suspended(o)) ~> ~Suspended(o)

(***************************************************************************)
(* C4: publish on a bus that is not running returns 0 and leaves the       *)
(* queues, the last_activity timestamps and the registry as they were.     *)
(***************************************************************************)
C4_NotRunningNoOp ==
    [][(last'.op = "publish" /\ ~running) =>
          /\ last'.ret = 0
          /\ UNCHANGED <<subs, global_subscriptions, subscriptions>>]_vars

\* a publish was dropped after stop() had completed, although a subscription
\* made since wanted the event
C4_Witness ==
    /\ last.op = "publish"
    /\ ~running
    /\ cleanup_task # 0
    /\ tasks[cleanup_task].state = "finished"
    /\ stop_waiting[cleanup_task] = 0
    /\ \E o \in Wanting(last.arg) : HasRoom(o)

(***************************************************************************)
(* C5: within one publish, a wanting subscription with a full queue does   *)
(* not keep the event from any other wanting subscription that has room,   *)
(* wherever the full one stands in the iteration.                          *)
(***************************************************************************)
C5_FullQueueIsolated ==
    [][(PublishedRunning /\ \E f \in Wanting(last'.arg) : ~HasRoom(f)) =>
          \A o \in Wanting(last'.arg) :
              HasRoom(o) => /\ Len(subs'[o].queue) = Len(subs[o].queue) + 1
                            /\ subs'[o].queue[Len(subs'[o].queue)] = last'.arg]_vars

\* the position of object o among the candidates of a publish of the event
Position(o, event) ==
    CHOOSE i \in DOMAIN Candidates(Bus, event) : Candidates(Bus, event)[i] = o

\* a publish has just met a full queue first and delivered to a later candidate
C5_Witness ==
    /\ last.op = "publish"
    /\ running
    /\ \E f, o \in Wanting(last.arg) :
          /\ Position(f, last.arg) < Position(o, last.arg)
          /\ last.arg \notin Elems(subs[f].queue)
          /\ Len(subs[f].queue) = max_queue_size
          /\ subs[o].queue # <<>>
          /\ subs[o].queue[Len(subs[o].queue)] = last.arg

(***************************************************************************)
(* C6: a publish that finds max_queue_size events in a wanting             *)
(* subscription's queue leaves that queue as it was, and its return value  *)
(* counts exactly the wanting subscriptions that had room.                 *)
(***************************************************************************)
C6_FullQueueDrops ==
    [][PublishedRunning =>
          /\ \A o \in Wanting(last'.arg) :
                Len(subs[o].queue) = max_queue_size => subs'[o].queue = subs[o].queue
          /\ last'.ret = Cardinality({o \in Wanting(last'.arg) : HasRoom(o)})]_vars

\* two publishes without a pull on a queue of size 1: the second returned 0 and
\* the queue still holds the first event
C6_Witness ==
    /\ last.op = "publish"
    /\ running
    /\ last.ret = 0
    /\ max_queue_size = 1
    /\ \E o \in Wanting(last.arg) :
          /\ Len(subs[o].queue) = 1
          /\ subs[o].queue[1].event_id < last.arg.event_id

(***************************************************************************)
(* C7: no subscription ever holds, queued or yielded, an event that its    *)
(* filter_criteria reject.                                                 *)
(***************************************************************************)
C7_FilterExclusion == \A o \in Objs : \A e \in Held(o) : Accepts(o, e)

\* a publish has just passed over a live, interested subscription with room
\* whose filter rejects the event
C7_Witness ==
    /\ last.op = "publish"
    /\ running
    /\ \E o \in Objs :
          /\ Live(o) /\ Interested(o, last.arg) /\ HasRoom(o)
          /\ ~Accepts(o, last.arg)

(***************************************************************************)
(* C8: a subscription created with an interest list never holds an event   *)
(* of a type outside the list, and a publish counts no subscription whose  *)
(* list lacks the event's type.                                            *)
(***************************************************************************)
C8_InterestExclusion ==
    /\ \A o \in Objs : \A e \in Held(o) : Interested(o, e)
    /\ (last.op = "publish" => last.ret <= Cardinality(Wanting(last.arg)))

\* a DELETED event has just been published past a live subscription with
\* interest [CREATED, UPDATED] whose filter accepts it and whose queue had room
C8_Witness ==
    /\ last.op = "publish"
    /\ running
    /\ last.arg.event_type = "DELETED"
    /\ \E o \in Objs :
          /\ Live(o) /\ Accepts(o, last.arg) /\ HasRoom(o)
          /\ interest[o] = SomeList(<<"CREATED", "UPDATED">>)

(***************************************************************************)
(* C9: unsubscribe(id) returns true exactly when id is registered and      *)
(* leaves it in no bucket; an id that is in no bucket never comes back and *)
(* its subscription's queue never grows again: so the first unsubscribe of *)
(* a live id returns true and every later one false.                       *)
(***************************************************************************)
\* the ids handed out so far that no bucket holds
Gone(bus) == {subs[o].subscription_id : o \in Objs} \ RegisteredIds(bus)

C9_UnsubscribeOnce ==
    [][/\ last'.op = "unsubscribe" =>
             /\ last'.ret = (last'.arg \in RegisteredIds(Bus))
             /\ last'.arg \notin RegisteredIds(Bus)'
       /\ \A o \in Objs :
             subs[o].subscription_id \in Gone(Bus) =>
                 /\ subs[o].subscription_id \notin RegisteredIds(Bus)'
                 /\ Len(subs'[o].queue) <= Len(subs[o].queue)]_vars

\* an unsubscribe has just returned true for an id that was registered under
\* two event types, and the id is in no bucket
C9_Witness ==
    /\ last.op = "unsubscribe"
    /\ last.ret = TRUE
    /\ running
    /\ \E o \in Objs :
          /\ subs[o].subscription_id = last.arg
          /\ Len(interest[o].items) = 2
          /\ ~Live(o)

(***************************************************************************)
(* C10: while the bus runs, a registered subscription whose last_activity  *)
(* is older than 2 x cleanup_interval is eventually removed from every     *)
(* bucket (unless it is refreshed or the bus stops first), and a reaper    *)
(* pass removes exactly the stale subscriptions and adds one to            *)
(* subscriptions_cleaned for each.  "Stale, registered and running always  *)
(* leads to no longer so" is written as "again and again not so".          *)
(***************************************************************************)
StaleLive == {o \in Objs : Live(o) /\ Older(o)}

C10_ReaperReclaims ==
    /\ \A o \in 1..MaxSubs :
          []<>~(o \in Objs /\ running /\ Live(o) /\ Older(o))
    /\ [][last'.op = "reaper_pass" =>
             /\ Registered(Bus)' = Registered(Bus) \ StaleLive
             /\ stats'.subscriptions_cleaned
                    = stats.subscriptions_cleaned + Cardinality(StaleLive)]_vars

\* a reaper pass has just removed a stale subscription that was registered
\* under two event types, and counted it once
C10_Witness ==
    /\ last.op = "reaper_pass"
    /\ running
    /\ stats.subscriptions_cleaned = 1
    /\ \E o \in Objs : ~Live(o) /\ Len(interest[o].items) = 2

(***************************************************************************)
(* C11: each subscription's sequence yields its events in the order in     *)
(* which publish enqueued them, none twice.  event_id numbers the publish  *)
(* calls.  A yield hands over the head of the queue and takes it off the   *)
(* queue; the only other change of a queue is a publish putting its event  *)
(* at the end; and the event at the yield followed by the queue always     *)
(* runs in publish order, all of it older than the next publish.           *)
(***************************************************************************)
Ids(events) == [i \in DOMAIN events |-> events[i].event_id]

Increasing(s) == \A i, j \in DOMAIN s : i < j => s[i] < s[j]

\* the generator of o hands an event to its consumer in this step
Yields(o) == yielded'[o] # <<>> /\ yielded'[o] # yielded[o]

C11_FifoOrder ==
    [][\A o \in Objs :
          /\ Yields(o) =>
                /\ subs[o].queue # <<>>
                /\ yielded'[o] = <<Head(subs[o].queue)>>
                /\ subs'[o].queue = Tail(subs[o].queue)
          /\ (~Yields(o) /\ subs'[o].queue # subs[o].queue) =>
                /\ last'.op = "publish"
                /\ last'.arg.event_id = next_event
                /\ subs'[o].queue = Append(subs[o].queue, last'.arg)
          /\ Increasing(Ids(yielded'[o] \o subs'[o].queue))
          /\ \A e \in Held(o)' : e.event_id < next_event']_vars

\* a consumer holds the first event published while the second waits in its
\* queue
C11_Witness ==
    \E o \in Objs :
        /\ gen[o] = "yielded"
        /\ Ids(yielded[o]) = <<1>>
        /\ Ids(subs[o].queue) = <<2>>

(***************************************************************************)
(* C12: whatever max_queue_size the bus is constructed with, 0 included,   *)
(* no queue ever holds more than max_queue_size events.                    *)
(***************************************************************************)
C12_QueueBounded == \A o \in Objs : Len(subs[o].queue) <= max_queue_size

(***************************************************************************)
(* C13: last_activity is set to the present by every step that enqueues an *)
(* event onto the subscription's queue and by every step in which its      *)
(* consumer is handed an event.                                            *)
(***************************************************************************)
C13_ActivityRefreshed ==
    [][\A o \in Objs :
          (Yields(o) \/ Len(subs'[o].queue) > Len(subs[o].queue))
              => subs'[o].last_activity = utcnow]_vars

(***************************************************************************)
(* C14: get_stats()["active_subscriptions"] is the number of distinct live *)
(* subscriptions.                                                          *)
(***************************************************************************)
C14_ActiveCount == get_stats.active_subscriptions = Cardinality(Registered(Bus))

(***************************************************************************)
(* C15: publish returns the number of queues that grew by one event in the *)
(* call, no queue changes otherwise, total_deliveries grows by the value   *)
(* returned, and no other step changes total_deliveries.                   *)
(***************************************************************************)
Grown == {o \in Objs : Len(subs'[o].queue) = Len(subs[o].queue) + 1}

C15_ReturnCountsEnqueues ==
    [][IF last'.op = "publish"
       THEN /\ last'.ret = Cardinality(Grown)
            /\ \A o \in Objs \ Grown : subs'[o].queue = subs[o].queue
            /\ stats'.total_deliveries = stats.total_deliveries + last'.ret
       ELSE stats'.total_deliveries = stats.total_deliveries]_vars

\* the second publish reached two subscriptions after the first reached one
C15_Witness ==
    /\ last.op = "publish"
    /\ last.ret = 2
    /\ stats.total_deliveries = 3

(***************************************************************************)
(* C16: every publish call raises events_published by exactly one.         *)
(***************************************************************************)
C16_PublishedCounts ==
    [][last'.op = "publish" =>
          stats'.events_published = stats.events_published + 1]_vars

(***************************************************************************)
(* C17: in every step that removes subscriptions from the registry,        *)
(* whether by unsubscribe, by the end of a sequence, by a reaper pass or   *)
(* by stop, subscriptions_cleaned grows by the number of subscriptions     *)
(* removed, and it stays as it is in a step that removes none.             *)
(***************************************************************************)
Removed == Registered(Bus) \ Registered(Bus)'

C17_CleanedPerRemoval ==
    [][Len(subs') = Len(subs) =>
          stats'.subscriptions_cleaned
              = stats.subscriptions_cleaned + Cardinality(Removed)]_vars

(***************************************************************************)
(* C18: a consumer that is suspended in a pull when unsubscribe (or the     *)
(* reaper) removes its subscription is resumed: it does not stay suspended *)
(* forever.                                                                *)
(***************************************************************************)
C18_RemovalEndsSequence ==
    \A o \in 1..MaxSubs :
        (/\ last.op = "unsubscribe"
         /\ last.ret = TRUE
         /\ Suspended(o)
         /\ subs[o].subscription_id = last.arg)
            ~> ~Suspended(o)

(***************************************************************************)
(* C19: when a consumer is suspended in a pull and a publish has put an    *)
(* event at the head of its queue, the consumer is eventually handed that  *)
(* event, the event loop running every generator that is ready.            *)
(***************************************************************************)
C19_PublishResumes ==
    \A o \in 1..MaxSubs : \A i \in 1..MaxEvents :
        (Suspended(o) /\ subs[o].queue # <<>> /\ Head(subs[o].queue).event_id = i)
            ~> (o \in Objs /\ Ids(yielded[o]) = <<i>>)

\* a publish has just put its event into the empty queue of a consumer that
\* is suspended in a pull
C19_Witness ==
    /\ last.op = "publish"
    /\ last.ret >= 1
    /\ \E o \in Objs : Suspended(o) /\ subs[o].queue = <<last.arg>>

(***************************************************************************)
(* C20: subscribe never registers a subscription under an id that an       *)
(* earlier subscription has or had, also when the caller passes the id.    *)
(***************************************************************************)
C20_IdsUnique ==
    [][Len(subs') > Len(subs) =>
          subs'[Len(subs')].subscription_id
              \notin {subs[o].subscription_id : o \in Objs}]_vars

(***************************************************************************)
(* C21: matches_filter returns true exactly when no criterion present in   *)
(* the criteria is unsatisfied: event_type among event_types, entity_id    *)
(* among entity_ids, user_id equal, and for every key of the metadata      *)
(* sub-filter the event's metadata value for the key (None when it has     *)
(* none) equal to the filter's; empty criteria match every event.          *)
(***************************************************************************)
Satisfied(event, filter_criteria, k) ==
    CASE k = "event_types" ->
            \E i \in DOMAIN filter_criteria[k] : filter_criteria[k][i] = event.event_type
      [] k = "entity_ids" ->
            \E i \in DOMAIN filter_criteria[k] : filter_criteria[k][i] = event.entity_id
      [] k = "user_id" -> filter_criteria[k] = event.user_id
      [] k = "metadata" ->
            ~\E key \in DOMAIN filter_criteria[k] :
                 filter_criteria[k][key]
                     # (IF key \in DOMAIN event.metadata THEN event.metadata[key] ELSE None)

Rejecting(event, filter_criteria) ==
    {k \in DOMAIN filter_criteria : ~Satisfied(event, filter_criteria, k)}

C21_MatchesIffAllPresent ==
    last.op = "matches_filter" =>
        /\ last.ret = (Rejecting(last.arg.event, last.arg.filter_criteria) = {})
        /\ DOMAIN last.arg.filter_criteria = {} => last.ret = TRUE

\* matches_filter has returned true for criteria that hold all four criteria
C21_Witness ==
    /\ last.op = "matches_filter"
    /\ last.ret = TRUE
    /\ DOMAIN last.arg.filter_criteria = {"event_types", "entity_ids", "user_id", "metadata"}

(***************************************************************************)
(* C25: the criteria to_event_bus_filter makes of a SubscriptionFilter     *)
(* with a non-empty change_types list accept no event whose type is not    *)
(* one of the change types listed, whatever include_batch_operations is.   *)
(***************************************************************************)
C25_ChangeTypesRestrict ==
    (last.op = "to_event_bus_filter" /\ Truthy(last.arg.change_types)) =>
        \A event \in FilterEvents :
            matches_filter(event, last.ret)
                => event.event_type \in Elems(last.arg.change_types.items)

(***************************************************************************)
(* C22: start() on a bus that is already running changes nothing: no       *)
(* reaper task is created, and the flag, the task the bus holds, the       *)
(* registry, the subscriptions with their queues and the statistics stay   *)
(* as they were.                                                           *)
(***************************************************************************)
C22_StartIdempotent ==
    [][(last'.op = "start" /\ last'.arg = TRUE) =>
          UNCHANGED <<running, cleanup_task, tasks, stop_waiting,
                      global_subscriptions, subscriptions, subs, stats>>]_vars

\* start() has just been called on a running bus that has a reaper task, a
\* registered subscription and a delivery on its counters
C22_Witness ==
    /\ last.op = "start"
    /\ last.arg = TRUE
    /\ Len(tasks) = 1
    /\ Registered(Bus) # {}
    /\ stats.total_deliveries > 0

C23_ReaperSurvivesError ==
    /\ [][(last'.op = "reaper_error" /\ running) =>
             \A t \in Tasks :
                 tasks[t].state = "sleeping" => tasks'[t].state = "sleeping"]_vars
    /\ (last.op = "reaper_error") ~> (last.op = "reaper_pass")
    /\ \A o \in 1..MaxSubs :
          []<>~(o \in Objs /\ running /\ Live(o) /\ Older(o))

\* a pass has just raised before removing the stale subscription it found,
\* and the reaper task sleeps again
C23_Witness ==
    /\ last.op = "reaper_error"
    /\ running
    /\ StaleLive # {}
    /\ tasks[cleanup_task] = [state |-> "sleeping", slept |-> 0]

(***************************************************************************)
(* C26: in one publish no two queues that receive the event belong to the  *)
(* same subscription id, and the value returned counts each id at most     *)
(* once, also when the id is in the global bucket and in the bucket of the *)
(* event's type.                                                           *)
(***************************************************************************)
C26_OncePerId ==
    [][last'.op = "publish" =>
          /\ \A o1, o2 \in Grown :
                subs[o1].subscription_id = subs[o2].subscription_id => o1 = o2
          /\ last'.ret <= Cardinality({subs[o].subscription_id : o \in Grown})]_vars

(***************************************************************************)
(* C27: a reaper pass removes no registered subscription whose             *)
(* last_activity is not older than 2 x cleanup_interval at the pass, and   *)
(* leaves every such subscription, its queue included, as it was.          *)
(***************************************************************************)
C27_OnlyStaleReaped ==
    [][last'.op = "reaper_pass" =>
          \A o \in Objs :
              (Live(o) /\ ~Older(o))
                  => /\ o \in Registered(Bus)'
                     /\ subs'[o] = subs[o]]_vars

(***************************************************************************)
(* C28: on a running bus no subscription is registered whose last activity *)
(* lies more than 2 x cleanup_interval in the past.  Under TimelySpec the  *)
(* bus runs for the whole life of every subscription and the reaper is     *)
(* never late.                                                             *)
(***************************************************************************)
C28_ReapedInTime == running => \A o \in Objs : Live(o) => ~Older(o)

(***************************************************************************)
(* C29: when stop() returns and no start() has run since it was called,    *)
(* the bus is not running, its reaper task (if it ever had one) has        *)
(* finished and no task is left that would run a pass, and no bucket holds *)
(* a subscription: whether the bus was running, never started, or stopped  *)
(* before.  A stop() that had to wait for the task has seen no start()     *)
(* exactly when the bus still holds the task it waited for.                *)
(***************************************************************************)
StopReturns ==
    /\ last'.op = "stop"
    /\ StopNow \/ \E t \in Tasks : StopResume(t) /\ cleanup_task = t

C29_StoppedIsEmpty ==
    [][StopReturns =>
          /\ ~running'
          /\ cleanup_task' # 0 => tasks'[cleanup_task'].state = "finished"
          /\ \A t \in DOMAIN tasks' : tasks'[t].state \notin {"new", "sleeping"}
          /\ Registered(Bus)' = {}
          /\ RegisteredIds(Bus)' = {}]_vars

\* stop() has returned on a bus that was started and held subscriptions in
\* the global bucket and in event-type buckets
C29_Witness ==
    /\ last.op = "stop"
    /\ ~running
    /\ cleanup_task # 0
    /\ tasks[cleanup_task].state = "finished"
    /\ \E o1, o2 \in last.arg : interest[o1].is_none /\ ~interest[o2].is_none
    /\ Registered(Bus) = {}

Ended(o) == o \in Objs /\ gen[o] \in {"abandoned", "closed"}

C31_StreamEndCleansUp ==
    /\ [][\A o \in Objs :
             (gen[o] = "waiting" /\ gen'[o] = "closed")
                 => subs[o].subscription_id \notin RegisteredIds(Bus)']_vars
    /\ \A o \in 1..MaxSubs : []<>~(Ended(o) /\ Live(o))

\* one stream has ended and its subscription is gone; another has just ended
\* at a yield and is registered until the finalizer runs
C31_Witness ==
    \E o1, o2 \in Objs :
        /\ gen[o1] = "closed" /\ ~Live(o1)
        /\ gen[o2] = "abandoned" /\ Live(o2)
        /\ stats.subscriptions_cleaned = 1

(***************************************************************************)
(* C32: a batch creation of N entities returns without an error; when none *)
(* of its publishes fails it publishes N CREATED events, one per entity in *)
(* the order of the list, and then one BATCH_OPERATION event; on a running *)
(* bus every registered global subscription without a filter whose queue   *)
(* has N+1 free slots gets exactly these events, in this order, at the end *)
(* of its queue; and a consumer is always handed the head of its queue.    *)
(***************************************************************************)
FreeSlots(o) == max_queue_size - Len(subs[o].queue)

C32_BatchInOrder ==
    [][/\ last'.op = "publish_batch" =>
             LET entities == last'.arg.entities
                 events == last'.ret.events
                 N == Len(entities)
             IN /\ ~last'.ret.raised
                /\ last'.arg.failed = {} =>
                      /\ Len(events) = N + 1
                      /\ \A i \in 1..N : /\ events[i].event_type = "CREATED"
                                         /\ events[i].entity_id = entities[i]
                      /\ events[N + 1].event_type = "BATCH_OPERATION"
                      /\ running =>
                            \A o \in Objs :
                                (/\ Live(o)
                                 /\ interest[o].is_none
                                 /\ subs[o].filter_criteria = EmptyDict
                                 /\ FreeSlots(o) >= N + 1)
                                    => subs'[o].queue = subs[o].queue \o events
       /\ \A o \in Objs :
             Yields(o) => /\ subs[o].queue # <<>>
                          /\ yielded'[o] = <<Head(subs[o].queue)>>
                          /\ subs'[o].queue = Tail(subs[o].queue)]_vars

\* of a batch of two entities a global subscriber holds the first creation
\* event at its yield and the second and the batch event in its queue
C32_Witness ==
    \E o \in Objs :
        /\ interest[o].is_none
        /\ gen[o] = "yielded"
        /\ yielded[o] = <<CreationEvent("a", 1)>>
        /\ subs[o].queue = <<CreationEvent("b", 2), BatchOperationEvent(3)>>

(***************************************************************************)
(* C33: when every subscribe call uses a generated id and an interest that *)
(* is absent or a non-empty list, the number of distinct subscription ids  *)
(* held in the registry is subscriptions_created - subscriptions_cleaned   *)
(* in every reachable state.                                               *)
(***************************************************************************)
C33_RegistryMatchesCounters ==
    Cardinality(RegisteredIds(Bus)) =
        stats.subscriptions_created - stats.subscriptions_cleaned

\* one subscription has been removed and its generator closed afterwards (a
\* second cleanup of the same id), another is held in two buckets
C33_Witness ==
    /\ stats.subscriptions_created = 2
    /\ stats.subscriptions_cleaned = 1
    /\ \E o \in Objs : ~Live(o) /\ gen[o] = "closed"
    /\ \E o \in Objs : /\ Live(o)
                        /\ subs[o].subscription_id \in Keys(subscriptions["CREATED"])
                        /\ subs[o].subscription_id \in Keys(subscriptions["UPDATED"])

(***************************************************************************)
(* C34: every subscription subscribe returns is registered in at least one *)
(* bucket, whatever event_types was, the empty list included: right after  *)
(* the call its id is in the registry (so that unsubscribe finds it and    *)
(* the reaper and stop reach it).                                          *)
(***************************************************************************)
C34_AlwaysRegistered ==
    [][Len(subs') = Len(subs) + 1 =>
          subs'[Len(subs')].subscription_id \in RegisteredIds(Bus)']_vars

(***************************************************************************)
(* C35: a reaper pass never removes a subscription whose consumer is       *)
(* suspended in a pull on its sequence (waiting in queue.get()), however   *)
(* long ago its last event was taken: it stays registered.                 *)
(***************************************************************************)
C35_ConnectedNotReaped ==
    [][last'.op = "reaper_pass" =>
          \A o \in Objs :
              (Live(o) /\ gen[o] = "waiting") => o \in Registered(Bus)']_vars

(***************************************************************************)
(* C36: the end of one subscription's sequence, the cleanup in the finally *)
(* of _event_generator, removes that subscription only: every other        *)
(* subscription that was registered before the step is registered after    *)
(* it, also one made with the same caller-supplied id after the first was  *)
(* unsubscribed.                                                           *)
(***************************************************************************)
C36_EndRemovesOnlyItself ==
    [][\A o \in Objs :
          (RunsFinally(gen[o]) /\ gen'[o] = "closed")
              => \A p \in Objs \ {o} : Live(p) => p \in Registered(Bus)']_vars

(***************************************************************************)
(* C37: with several producers publishing concurrently, any two            *)
(* subscriptions that both hold events E1 and E2 hold them in the same     *)
(* relative order, and the fan-out of one publish call is one step: it     *)
(* appends that one event to the queues it reaches while the registry and  *)
(* the consumers' positions stay as they are.                              *)
(***************************************************************************)
\* the events of o in the order its consumer gets them
Pending(o) == yielded[o] \o subs[o].queue

SameOrder ==
    \A o1, o2 \in Objs :
        \A i1, j1 \in DOMAIN Pending(o1) : \A i2, j2 \in DOMAIN Pending(o2) :
            (/\ Pending(o1)[i1] = Pending(o2)[i2]
             /\ Pending(o1)[j1] = Pending(o2)[j2]
             /\ i1 < j1) => i2 < j2

C37_FanOutAtomic ==
    [][/\ SameOrder'
       /\ last'.op = "publish" =>
             /\ UNCHANGED <<global_subscriptions, subscriptions, gen, yielded>>
             /\ \A o \in Objs :
                   \/ subs'[o] = subs[o]
                   \/ subs'[o] = [subs[o] EXCEPT !.queue = Append(@, last'.arg)]]_vars

\* two subscriptions hold the same two events, one of them with the first
\* event already at its consumer
C37_Witness ==
    \E o1, o2 \in Objs :
        /\ o1 # o2
        /\ Ids(subs[o1].queue) = <<1, 2>>
        /\ Ids(yielded[o2]) = <<1>>
        /\ Ids(subs[o2].queue) = <<2>>

(***************************************************************************)
(* C38: once a subscription has been removed from the registry (by         *)
(* unsubscribe, the reaper or stop) its sequence hands no further event to *)
(* the consumer, also none that was enqueued before the removal: every     *)
(* yield is of a subscription that is registered.                          *)
(***************************************************************************)
C38_RemovedYieldsNothing ==
    [][\A o \in Objs : Yields(o) => Live(o)]_vars

(***************************************************************************)
(* C39: after any interleaving of start() and stop() calls, a start() that *)
(* runs while a stop() waits for the cancelled reaper included: whenever   *)
(* is_running is true exactly one reaper loop that has not been cancelled  *)
(* exists, and whenever it is false none does.                             *)
(***************************************************************************)
\* the reaper tasks that have been neither cancelled nor finished
NonCancelled == {t \in Tasks : tasks[t].state \in {"new", "sleeping"}}

C39_OneReaperWhileRunning ==
    /\ running => NonCancelled = {cleanup_task}
    /\ ~running => NonCancelled = {}

\* start() has run while a stop() still waits for the first reaper task: the
\* bus runs again with its second reaper
C39_Witness ==
    /\ running
    /\ Len(tasks) = 2
    /\ stop_waiting[1] > 0
    /\ tasks[1].state = "cancelling"
    /\ tasks[2].state = "sleeping"

====
